---- MODULE Spec2Model ----
(***************************************************************************)
(* The SQS-triggered OTP e-mail sender: utils/otp.py (generate_otp,        *)
(* create_otp_record), utils/db.py (get_connection) and lambda_function.py *)
(* (lambda_handler).  The handler is modelled statement by statement: the  *)
(* program counter pc names the next statement of the for-loop body, and   *)
(* every call to a collaborator (psycopg2, SES, the random and uuid        *)
(* sources) either succeeds or raises.                                     *)
(***************************************************************************)
EXTENDS Integers, Sequences, FiniteSets, TLC

VARIABLES
    batch,       \* event["Records"]: the bodies of the records, in order
    i,           \* position of the for-loop in event["Records"] (1-based)
    pc,          \* next statement of lambda_handler
    exc,         \* the exception that left lambda_handler, "" when none
    response,    \* the value lambda_handler returned, << >> before the return
    email,       \* local email
    otp_type,    \* local otp_type
    conn,        \* local conn: a handle, NoHandle while the name is unbound
    cursor,      \* local cursor: a handle, NoHandle while the name is unbound
    user_id,     \* local user_id
    otp_record,  \* local otp_record (lambda_handler) / the record create_otp_record returned
    handles,     \* every connection and cursor psycopg2 handed out so far
    pending,     \* rows inserted on the open transaction, not yet committed
    otp_codes,   \* committed rows of table otp_codes
    outbox,      \* e-mails SES accepted
    log,         \* lines printed by the handler
    clock,       \* datetime.utcnow(), in minutes
    uuids,       \* number of uuid4 values drawn
    length,      \* argument of the last direct call of generate_otp
    code         \* result of the last direct call of generate_otp

vars == <<batch, i, pc, exc, response, email, otp_type, conn, cursor, user_id,
          otp_record, handles, pending, otp_codes, outbox, log, clock, uuids,
          length, code>>

handlerVars == <<batch, i, pc, exc, response, email, otp_type, conn, cursor,
                 user_id, handles, pending, otp_codes, outbox, log>>

----------------------------------------------------------------------------
(* Bounds of the model *)

MaxBatch == 2    \* records per event
MaxTick == 1     \* minutes the clock may advance between two reads
MaxSeed == 1     \* outcomes of the random source for a 6-digit code: 0..MaxSeed
MaxLen == 2      \* largest length passed to generate_otp directly
MaxCalls == 2    \* direct calls of create_otp_record in SpecOtp

----------------------------------------------------------------------------
(* utils/otp.py *)

\* string.digits
string_digits == <<"0", "1", "2", "3", "4", "5", "6", "7", "8", "9">>

\* generate_otp(length=6): the default of the parameter
DefaultLength == 6

\* timedelta(minutes=10)
ValidityMinutes == 10

\* The outcomes of random.choices(population, k=k): one index into the
\* population per position.
Picks(k) == [1..k -> 1..Len(string_digits)]

\* A bounded family of outcomes for k = 6 (all 10^6 are out of reach).
SeededPicks == { [j \in 1..DefaultLength |-> ((7 * s + j * (2 * s + 1)) % 10) + 1] :
                 s \in 0..MaxSeed }

\* A generate_otp that draws one character too few.
generate_otp_short(len, picks) ==
    [j \in 1..(len - 1) |-> string_digits[picks[j]]]

\* ''.join(random.choices(string.digits, k=length))
generate_otp(len, picks) ==
    [j \in 1..len |-> string_digits[picks[j]]]

\* A create_otp_record that ignores its otp_type argument.
create_otp_record_default_type(uid, type, picks, uuid, now1, now2) ==
    [id |-> uuid, user_id |-> uid, code |-> generate_otp(DefaultLength, picks),
     type |-> "email_verification",
     expires_at |-> now1 + ValidityMinutes, created_at |-> now2]

\* create_otp_record(user_id, otp_type): picks is the outcome of the random
\* source, uuid the value of uuid.uuid4(), now1 and now2 the two successive
\* values of datetime.utcnow() (lines 12 and 13).
create_otp_record(uid, type, picks, uuid, now1, now2) ==
    [id |-> uuid, user_id |-> uid, code |-> generate_otp(DefaultLength, picks),
     type |-> type,
     expires_at |-> now1 + ValidityMinutes, created_at |-> now2]

NoRecord == << >>


----------------------------------------------------------------------------
(* The world of lambda_handler: the event, the users table, psycopg2 handles *)

\* A Python dict is a set of <<key, value>> pairs with distinct keys.
\* dict.get(key, default)
dict_get(d, key, default) ==
    IF \E p \in d : p[1] = key
      THEN (CHOOSE p \in d : p[1] = key)[2]
      ELSE default

\* The bodies a record of the event may carry: text json.loads rejects, JSON
\* text of a value that is no object (a list), and JSON objects {email, type?}.
Emails == {"a@x.com", "ghost@x.com"}
Types == {"password_reset"}
ObjectBodies ==
    { [json |-> "object", value |-> {<<"email", e>>}] : e \in Emails }
    \cup { [json |-> "object", value |-> {<<"email", e>>, <<"type", t>>}] :
           e \in Emails, t \in Types }
Bodies ==
    {[json |-> "malformed", value |-> {}], [json |-> "array", value |-> {}]}
    \cup ObjectBodies

\* Table users: rows <<email, id>>.
users == {<<"a@x.com", "U1">>}

\* cursor.execute("SELECT id FROM users WHERE email = %s") ; cursor.fetchone():
\* the row <<id>>, or << >> (None) when no row matches.
fetchone(e) ==
    IF \E u \in users : u[1] = e
      THEN <<(CHOOSE u \in users : u[1] = e)[2]>>
      ELSE << >>

\* 'conn' in locals() / 'cursor' in locals() is false while the name is unbound.
NoHandle == 0

\* A handle psycopg2 hands out: its kind, the loop position that acquired it,
\* whether it is open, and the loop positions at which close() was called on it.
NewHandle(kind) == [kind |-> kind, iter |-> i, open |-> TRUE, closedIn |-> {}]

\* h.close() returned.
Closed(h) ==
    [handles EXCEPT ![h] = [@ EXCEPT !.open = FALSE, !.closedIn = @ \cup {i}]]

\* h.close() raised: the call was made, the handle is not released.
CloseRaised(h) ==
    [handles EXCEPT ![h] = [@ EXCEPT !.closedIn = @ \cup {i}]]

\* Lines 59-60: except Exception prints the error; control goes to finally.
Caught(what) ==
    /\ log' = Append(log, [msg |-> i, line |-> "Error processing email", err |-> what])
    /\ pc' = "finally_cursor"

Printed(line) == Append(log, [msg |-> i, line |-> line, err |-> ""])

otpVars == <<otp_record, clock, uuids, length, code>>

----------------------------------------------------------------------------
(* lambda_handler *)

Init ==
    /\ batch \in UNION { [1..n -> Bodies] : n \in 1..MaxBatch }
    /\ i = 1
    /\ pc = "for"
    /\ exc = ""
    /\ response = << >>
    /\ email = ""
    /\ otp_type = ""
    /\ conn = NoHandle
    /\ cursor = NoHandle
    /\ user_id = ""
    /\ otp_record = NoRecord
    /\ handles = << >>
    /\ pending = << >>
    /\ otp_codes = << >>
    /\ outbox = << >>
    /\ log = << >>
    /\ clock = 0
    /\ uuids = 0
    /\ length = 0
    /\ code = << >>

\* Lines 12-15: take the next record, json.loads its body, read email and type.
\* json.loads raises on malformed text and body.get raises on a value that is
\* no dict; both happen before the try statement.
Parse ==
    /\ pc = "for"
    /\ i <= Len(batch)
    /\ IF batch[i].json = "object"
         THEN /\ email' = dict_get(batch[i].value, "email", "None")
              /\ otp_type' = dict_get(batch[i].value, "type", "email_verification")
              /\ pc' = "get_connection"
              /\ exc' = exc
         ELSE /\ pc' = "raised"
              /\ exc' = IF batch[i].json = "malformed"
                          THEN "JSONDecodeError" ELSE "AttributeError"
              /\ UNCHANGED <<email, otp_type>>
    /\ UNCHANGED <<batch, i, response, conn, cursor, user_id, handles, pending,
                   otp_codes, outbox, log>>
    /\ UNCHANGED otpVars

\* Line 66: the loop is exhausted.
Return ==
    /\ pc = "for"
    /\ i > Len(batch)
    /\ pc' = "returned"
    /\ response' = [statusCode |-> 200, body |-> "All messages processed"]
    /\ UNCHANGED <<batch, i, exc, email, otp_type, conn, cursor, user_id, handles,
                   pending, otp_codes, outbox, log>>
    /\ UNCHANGED otpVars

\* Line 18 and utils/db.py: conn = get_connection()
GetConnection ==
    /\ pc = "get_connection"
    /\ \E ok \in BOOLEAN :
         IF ok
           THEN /\ handles' = Append(handles, NewHandle("connection"))
                /\ conn' = Len(handles) + 1
                /\ pc' = "conn_cursor"
                /\ log' = log
           ELSE /\ Caught("get_connection")
                /\ UNCHANGED <<handles, conn>>
    /\ UNCHANGED <<batch, i, exc, response, email, otp_type, cursor, user_id,
                   pending, otp_codes, outbox>>
    /\ UNCHANGED otpVars

\* Line 19: cursor = conn.cursor()
ConnCursor ==
    /\ pc = "conn_cursor"
    /\ \E ok \in BOOLEAN :
         IF ok
           THEN /\ handles' = Append(handles, NewHandle("cursor"))
                /\ cursor' = Len(handles) + 1
                /\ pc' = "select"
                /\ log' = log
           ELSE /\ Caught("conn.cursor")
                /\ UNCHANGED <<handles, cursor>>
    /\ UNCHANGED <<batch, i, exc, response, email, otp_type, conn, user_id,
                   pending, otp_codes, outbox>>
    /\ UNCHANGED otpVars

\* Lines 21-27: look the user up; no row: print and continue (through finally).
Select ==
    /\ pc = "select"
    /\ \E ok \in BOOLEAN :
         IF ok
           THEN IF fetchone(email) = << >>
                  THEN /\ log' = Printed("User not found")
                       /\ pc' = "finally_cursor"
                       /\ user_id' = user_id
                  ELSE /\ user_id' = fetchone(email)[1]
                       /\ pc' = "create_otp_record"
                       /\ log' = log
           ELSE /\ Caught("select")
                /\ user_id' = user_id
    /\ UNCHANGED <<batch, i, exc, response, email, otp_type, conn, cursor, handles,
                   pending, otp_codes, outbox>>
    /\ UNCHANGED otpVars

\* Line 29: otp_record = create_otp_record(user_id, otp_type); the clock may
\* advance between the two reads of datetime.utcnow().
CreateOtpRecord ==
    /\ pc = "create_otp_record"
    /\ \E ok \in BOOLEAN :
         IF ok
           THEN \E picks \in SeededPicks, d \in 0..MaxTick :
                  /\ otp_record' = create_otp_record(user_id, otp_type, picks,
                                                     uuids + 1, clock, clock + d)
                  /\ clock' = clock + d
                  /\ uuids' = uuids + 1
                  /\ pc' = "insert"
                  /\ log' = log
           ELSE /\ Caught("create_otp_record")
                /\ UNCHANGED <<otp_record, clock, uuids>>
    /\ UNCHANGED <<batch, i, exc, response, email, otp_type, conn, cursor, user_id,
                   handles, pending, otp_codes, outbox, length, code>>

\* Lines 30-40: cursor.execute("INSERT INTO otp_codes ...")
Insert ==
    /\ pc = "insert"
    /\ \E ok \in BOOLEAN :
         IF ok
           THEN /\ pending' = Append(pending, [msg |-> i, row |-> otp_record])
                /\ pc' = "commit"
                /\ log' = log
           ELSE /\ Caught("insert")
                /\ pending' = pending
    /\ UNCHANGED <<batch, i, exc, response, email, otp_type, conn, cursor, user_id,
                   handles, otp_codes, outbox>>
    /\ UNCHANGED otpVars

\* Lines 41-43: conn.commit(), then print
Commit ==
    /\ pc = "commit"
    /\ \E ok \in BOOLEAN :
         IF ok
           THEN /\ otp_codes' = otp_codes \o pending
                /\ pending' = << >>
                /\ log' = Printed("OTP stored in DB")
                /\ pc' = "send_email"
           ELSE /\ Caught("commit")
                /\ UNCHANGED <<otp_codes, pending>>
    /\ UNCHANGED <<batch, i, exc, response, email, otp_type, conn, cursor, user_id,
                   handles, outbox>>
    /\ UNCHANGED otpVars

\* Lines 45-57: ses.send_email(...), then print
SendEmail ==
    /\ pc = "send_email"
    /\ \E ok \in BOOLEAN :
         IF ok
           THEN /\ outbox' = Append(outbox,
                      [msg |-> i, to |-> <<email>>,
                       subject |-> "Your Verification Code",
                       body |-> <<"Your OTP is ", otp_record.code,
                                  ". It will expire in 10 minutes.">>])
                /\ log' = Printed("OTP sent")
                /\ pc' = "finally_cursor"
           ELSE /\ Caught("send_email")
                /\ outbox' = outbox
    /\ UNCHANGED <<batch, i, exc, response, email, otp_type, conn, cursor, user_id,
                   handles, pending, otp_codes>>
    /\ UNCHANGED otpVars

\* Line 63: if 'cursor' in locals(): cursor.close(), where close() returns
\* (TRUE) or raises (FALSE) as outcomes allows.  Nothing in the finally clause
\* catches what close() raises.
FinallyCursorWith(outcomes) ==
    /\ pc = "finally_cursor"
    /\ IF cursor = NoHandle
         THEN /\ pc' = "finally_conn"
              /\ UNCHANGED <<handles, exc>>
         ELSE \E ok \in outcomes :
                IF ok
                  THEN /\ handles' = Closed(cursor)
                       /\ pc' = "finally_conn"
                       /\ exc' = exc
                  ELSE /\ handles' = CloseRaised(cursor)
                       /\ pc' = "raised"
                       /\ exc' = "cursor.close"
    /\ UNCHANGED <<batch, i, response, email, otp_type, conn, cursor, user_id,
                   pending, otp_codes, outbox, log>>
    /\ UNCHANGED otpVars

FinallyCursor == FinallyCursorWith(BOOLEAN)

\* Line 64: if 'conn' in locals(): conn.close(); then the next record.  Closing
\* the connection discards what its transaction has not committed.
FinallyConnWith(outcomes) ==
    /\ pc = "finally_conn"
    /\ IF conn = NoHandle
         THEN /\ pc' = "for"
              /\ i' = i + 1
              /\ UNCHANGED <<handles, exc, pending>>
         ELSE \E ok \in outcomes :
                IF ok
                  THEN /\ handles' = Closed(conn)
                       /\ pending' = << >>
                       /\ pc' = "for"
                       /\ i' = i + 1
                       /\ exc' = exc
                  ELSE /\ handles' = CloseRaised(conn)
                       /\ pc' = "raised"
                       /\ exc' = "conn.close"
                       /\ UNCHANGED <<i, pending>>
    /\ UNCHANGED <<batch, response, email, otp_type, conn, cursor, user_id,
                   otp_codes, outbox, log>>
    /\ UNCHANGED otpVars

\* A finally clause without line 64: the connection is never closed.
FinallyConnSkipped ==
    /\ pc = "finally_conn"
    /\ pc' = "for"
    /\ i' = i + 1
    /\ UNCHANGED <<batch, exc, response, email, otp_type, conn, cursor, user_id,
                   handles, pending, otp_codes, outbox, log>>
    /\ UNCHANGED otpVars

FinallyConn == FinallyConnWith(BOOLEAN)

\* The same two statements when close() never raises (as psycopg2's close()
\* of a plain cursor and of a connection behaves).
FinallyCursorOk == FinallyCursorWith({TRUE})

FinallyConnOk == FinallyConnWith({TRUE})

Next ==
    \/ Parse
    \/ Return
    \/ GetConnection
    \/ ConnCursor
    \/ Select
    \/ CreateOtpRecord
    \/ Insert
    \/ Commit
    \/ SendEmail
    \/ FinallyCursor
    \/ FinallyConn

Spec == Init /\ [][Next]_vars

\* lambda_handler with close() calls that never raise: a subset of the
\* behaviours of Spec.
NextCloseOk ==
    \/ Parse
    \/ Return
    \/ GetConnection
    \/ ConnCursor
    \/ Select
    \/ CreateOtpRecord
    \/ Insert
    \/ Commit
    \/ SendEmail
    \/ FinallyCursorOk
    \/ FinallyConnOk

SpecCloseOk == Init /\ [][NextCloseOk]_vars

----------------------------------------------------------------------------
(* utils/otp.py called directly *)

InitOtp ==
    /\ batch = << >>
    /\ i = 1
    /\ pc = "otp"
    /\ exc = ""
    /\ response = << >>
    /\ email = ""
    /\ otp_type = ""
    /\ conn = NoHandle
    /\ cursor = NoHandle
    /\ user_id = ""
    /\ otp_record = NoRecord
    /\ handles = << >>
    /\ pending = << >>
    /\ otp_codes = << >>
    /\ outbox = << >>
    /\ log = << >>
    /\ clock = 0
    /\ uuids = 0
    /\ length = 0
    /\ code = << >>

\* generate_otp(L) for a length L >= 1 and any outcome of the random source
\* (one direct call per behaviour)
GenerateOtpCall ==
    /\ pc = "otp"
    /\ length = 0
    /\ \E L \in 1..MaxLen : \E picks \in Picks(L) :
         /\ length' = L
         /\ code' = generate_otp(L, picks)
    /\ UNCHANGED handlerVars
    /\ UNCHANGED <<otp_record, clock, uuids>>

\* create_otp_record(uid, type) / create_otp_record(uid): the clock may advance
\* before the call and between its two reads.
CreateOtpRecordCall ==
    /\ pc = "otp"
    /\ uuids < MaxCalls
    /\ \E type \in Types \cup {"email_verification"}, picks \in SeededPicks,
          d0 \in 0..MaxTick, d \in 0..MaxTick :
         /\ otp_record' = create_otp_record("U1", type, picks, uuids + 1,
                                            clock + d0, clock + d0 + d)
         /\ clock' = clock + d0 + d
         /\ uuids' = uuids + 1
    /\ UNCHANGED handlerVars
    /\ UNCHANGED <<length, code>>

NextOtp ==
    \/ GenerateOtpCall
    \/ CreateOtpRecordCall

SpecOtp == InitOtp /\ [][NextOtp]_vars

----------------------------------------------------------------------------
(* Vocabulary of the properties *)

ParseErrors == {"JSONDecodeError", "AttributeError"}

\* lambda_handler is over: it returned, or an exception left it.
Finished == pc \in {"returned", "raised"}

\* lambda_handler returned the success result after the whole batch.
ReturnedSuccess ==
    /\ pc = "returned"
    /\ response.statusCode = 200
    /\ i = Len(batch) + 1

Unparsable(k) == batch[k].json # "object"

LoggedAt(k, line, err) ==
    \E j \in 1..Len(log) : log[j] = [msg |-> k, line |-> line, err |-> err]

ErrorAt(k) ==
    \E j \in 1..Len(log) : log[j].msg = k /\ log[j].line = "Error processing email"

\* Committed rows, open-transaction rows and accepted e-mails caused by record k.
RowsOf(k) == {j \in 1..Len(otp_codes) : otp_codes[j].msg = k}
PendingOf(k) == {j \in 1..Len(pending) : pending[j].msg = k}
MailsOf(k) == {j \in 1..Len(outbox) : outbox[j].msg = k}

DigitChars == {"0", "1", "2", "3", "4", "5", "6", "7", "8", "9"}

IsDigits(str, n) == Len(str) = n /\ \A j \in 1..Len(str) : str[j] \in DigitChars

\* The email and the type record k states ("email_verification" without one).
EmailOfBody(k) == (CHOOSE p \in batch[k].value : p[1] = "email")[2]
TypeOfBody(k) ==
    IF \E p \in batch[k].value : p[1] = "type"
      THEN (CHOOSE p \in batch[k].value : p[1] = "type")[2]
      ELSE "email_verification"

----------------------------------------------------------------------------
(* The properties *)

\* C1: a record whose body fails to parse (json.loads raises, or the parsed
\* value is no object) fails alone: the handler still goes through the rest of
\* the batch and ends by returning the success result.
C1_ParseFailureDoesNotAbortBatch ==
    \A k \in 1..Len(batch) :
        (Unparsable(k) /\ i >= k /\ Finished) => ReturnedSuccess

\* C2: whatever the outcomes of the steps of each record, lambda_handler ends
\* by returning statusCode 200 after every record was attempted; no exception
\* leaves it.
C2_AlwaysReturns200 ==
    /\ pc # "raised"
    /\ exc = ""
    /\ pc = "returned" => (response.statusCode = 200 /\ i = Len(batch) + 1)

\* C3: when the lookup for record k finds no row, record k causes no OTP row
\* and no e-mail and no exception, and the loop does not end before records
\* k+1..N were processed.
C3_UserNotFoundSkipsAndContinues ==
    \A k \in 1..Len(batch) :
        LoggedAt(k, "User not found", "") =>
            /\ RowsOf(k) = {} /\ PendingOf(k) = {} /\ MailsOf(k) = {}
            /\ pc # "raised"
            /\ Finished => i = Len(batch) + 1

\* C4: when the insert or the commit for record k fails, no e-mail is sent for
\* record k, every other record is still attempted and no exception leaves
\* lambda_handler.
C4_PersistenceFailureIsolated ==
    \A k \in 1..Len(batch) :
        (LoggedAt(k, "Error processing email", "insert")
           \/ LoggedAt(k, "Error processing email", "commit")) =>
            /\ MailsOf(k) = {} /\ RowsOf(k) = {}
            /\ exc = ""
            /\ Finished => ReturnedSuccess

C6_SendFailureKeepsRowAndContinues ==
    \A k \in 1..Len(batch) :
        LoggedAt(k, "Error processing email", "send_email") =>
            /\ Cardinality(RowsOf(k)) = 1
            /\ MailsOf(k) = {}
            /\ ~(pc = "raised" /\ i = k)

\* C7: a record whose email resolves to user U and whose steps all succeed
\* causes exactly one committed row, with user_id U and the record's type
\* (email_verification without one), and exactly one e-mail, to its email and
\* carrying the row's code; an e-mail is only ever sent after the commit of
\* its row, so there are never more e-mails than committed rows.
C7_OneRowOneMailPerSuccess ==
    /\ Len(outbox) <= Len(otp_codes)
    /\ \A k \in 1..Len(batch) :
        /\ Cardinality(MailsOf(k)) <= Cardinality(RowsOf(k))
        /\ Cardinality(RowsOf(k)) <= 1
        /\ \A m \in MailsOf(k) : \A r \in RowsOf(k) :
             /\ outbox[m].to = <<EmailOfBody(k)>>
             /\ outbox[m].body[2] = otp_codes[r].row.code
             /\ IsDigits(otp_codes[r].row.code, 6)
             /\ \E u \in users : u = <<EmailOfBody(k), otp_codes[r].row.user_id>>
             /\ otp_codes[r].row.type = TypeOfBody(k)
        /\ (k < i /\ ~Unparsable(k) /\ ~ErrorAt(k)
              /\ (\E u \in users : u[1] = EmailOfBody(k))) =>
             (Cardinality(RowsOf(k)) = 1 /\ Cardinality(MailsOf(k)) = 1)

\* C7 witness: the handler returned after a record without a type and a
\* record with one, both for a known user, both mailed.
C7_Witness ==
    /\ pc = "returned"
    /\ Len(batch) = 2
    /\ Len(outbox) = 2
    /\ otp_codes[1].row.type = "email_verification"
    /\ otp_codes[2].row.type = "password_reset"
    /\ outbox[1].body[2] # outbox[2].body[2]

\* C8: every record create_otp_record returns expires exactly 10 minutes
\* after it was created.
C8_ExpiresExactlyTenMinutesAfterCreation ==
    uuids > 0 =>
        /\ otp_record.expires_at - otp_record.created_at = 10
        /\ otp_record.expires_at > otp_record.created_at

\* C9: generate_otp(L) is a string of exactly L decimal digits, and the code
\* of a record built by create_otp_record (no length given) has 6 digits.
C9_CodeIsLDigits ==
    /\ length > 0 => IsDigits(code, length)
    /\ uuids > 0 => IsDigits(otp_record.code, 6)

\* C9 witness: generate_otp(2) returned "90" and create_otp_record a record.
C9_Witness ==
    /\ length = 2
    /\ code = <<"9", "0">>
    /\ uuids > 0

\* C10: no handle is shared between iterations: every close() is called in the
\* iteration that acquired the handle it closes.
C10_CleanupClosesOnlyOwnHandles ==
    \A h \in 1..Len(handles) : handles[h].closedIn \subseteq {handles[h].iter}

====
